---- MODULE Spec2Model ----
(***************************************************************************)
(* Model of the NEAR messaging contract in smart-contract/src/lib.rs:      *)
(* account registry (users), friendship graph (friends) and message logs   *)
(* (messages), together with the part of contract storage that holds the   *)
(* elements of the message vectors.                                        *)
(*                                                                         *)
(* One call runs to completion before the next starts, so every public     *)
(* method is one action.  A method is an operator from the contract state  *)
(* and its inputs to [self, err, ret]: the state it leaves, the panic      *)
(* message ("" when it returned) and the returned value.                   *)
(***************************************************************************)
EXTENDS Integers, Sequences, FiniteSets, TLC

VARIABLES
    users,      \* Contract.users: the accounts, in insertion order
    messages,   \* Contract.messages: chat_id -> Vector header [prefix, len]
    friends,    \* Contract.friends: account -> (account -> bool)
    storage,    \* storage slots of vector elements: <<prefix, index>> -> Message
    last,       \* the call that ran last: method, inputs, panic message, result
    sent,       \* history: chat_id -> the messages send_message pushed there, in order
    created     \* history: the accounts that have called create_account

vars == <<users, messages, friends, storage, last, sent, created>>

-----------------------------------------------------------------------------
(* Bounds of the model *)

\* at most this many messages are pushed in one behaviour
MaxSends == 3

\* Account ids.  "aa" and "aaa" are two accounts whose concatenations in
\* either order are the same string.
Accounts == {"aa", "aaa", "bb"}
\* what a send_message call carries: <<message_content, env::block_timestamp_ms()>>
Payloads == {<<"", 5>>, <<"hi", 7>>}
\* Option<u32>: None, Some(n)
None == <<>>
Some(n) == <<n>>
\* the Option<u32> arguments of the paginated views
Options == {None, Some(1)}

NoError == ""
NoValue == "-"

-----------------------------------------------------------------------------
(* Library primitives the contract uses *)

\* env::keccak256: a digest determined by the bytes alone; distinct byte
\* strings are taken to have distinct digests.
keccak256(bytes) == <<"keccak256", bytes>>

\* Option::unwrap_or
unwrap_or(opt, default) == IF opt = None THEN default ELSE opt[1]

\* Iterator::rev
RECURSIVE rev(_)
rev(s) == IF s = <<>> THEN <<>> ELSE Append(rev(Tail(s)), Head(s))

\* Iterator::skip
skip(s, n) == IF n >= Len(s) THEN <<>> ELSE SubSeq(s, n + 1, Len(s))

\* Iterator::take
take(s, n) == IF n >= Len(s) THEN s ELSE SubSeq(s, 1, n)

\* elements of a sequence
Range(s) == {s[i] : i \in 1..Len(s)}

\* StorageKey::Message, the prefix given to every message vector
StorageKey_Message == "Message"

\* store::Vector::new
Vector_new(prefix) == [prefix |-> prefix, len |-> 0]

\* store::Vector: element i lives in the storage slot <<prefix, i>>
Vector_iter(store, vec) == [i \in 1..vec.len |-> store[<<vec.prefix, i - 1>>]]

\* store::Vector::push: write slot <<prefix, len>>
Vector_push_storage(store, vec, element) ==
    [k \in (DOMAIN store) \cup {<<vec.prefix, vec.len>>} |->
        IF k = <<vec.prefix, vec.len>> THEN element ELSE store[k]]

\* LookupMap::insert and entry().or_insert_with() on a map held by value
Map_insert(map, key, value) ==
    [k \in (DOMAIN map) \cup {key} |-> IF k = key THEN value ELSE map[k]]

Map_or_insert(map, key, default) ==
    IF key \in DOMAIN map THEN map ELSE Map_insert(map, key, default)

EmptyMap == [k \in {} |-> NoValue]

-----------------------------------------------------------------------------
(* The contract *)

Message(author, content, created_at_ms) ==
    [author |-> author, content |-> content, created_at_ms |-> created_at_ms]

Self == [users |-> users, messages |-> messages, friends |-> friends,
         storage |-> storage]

Returned(self, ret) == [self |-> self, err |-> NoError, ret |-> ret]
\* a panic leaves the state as the statements before it made it
Panicked(self, msg) == [self |-> self, err |-> msg, ret |-> NoValue]

new == [users |-> <<>>, messages |-> EmptyMap, friends |-> EmptyMap,
        storage |-> EmptyMap]

\* variant: the two strings are joined with a separator before hashing
calculate_hash_separated(a, b) == keccak256(a \o ":" \o b)

calculate_hash(a, b) == keccak256(a \o b)

get_chat_id(user_id, receiver_id) == calculate_hash(user_id, receiver_id)

\* variant: inserts without looking the account up
create_account_duplicating(self, predecessor) ==
    Returned([self EXCEPT !.users = Append(@, predecessor)], TRUE)

create_account(self, predecessor) ==
    IF predecessor \in Range(self.users)
    THEN Returned(self, FALSE)
    ELSE Returned([self EXCEPT !.users = Append(@, predecessor)], TRUE)

\* panic messages of the contract
ERR_ADD_NOT_USER == "You must be a user to add a friend."
ERR_ADD_FRIEND_NOT_USER == "Your friend must be a user."
ERR_ADD_SELF == "You cannot add yourself as friend."
ERR_SEND_NOT_USER == "You must be a user to send a message."
ERR_SEND_RECEIVER_NOT_USER == "The receiver must be a user to receive a message."
ERR_SEND_NO_FRIEND == "You do not have any friend."
ERR_SEND_NOT_FRIENDS == "You are not friends with the given receiver."
ERR_SEND_EMPTY == "The message can not be empty."
ERR_NO_MESSAGES == "The user does not have any messages."

\* variant: a new inner map on every call, in place of entry().or_insert_with()
insert_friend_fresh(friends_map, key, friend) ==
    Map_insert(friends_map, key, Map_insert(EmptyMap, friend, TRUE))

\* self.friends.entry(key).or_insert_with(LookupMap::new), then insert(friend, true)
insert_friend(friends_map, key, friend) ==
    LET outer == Map_or_insert(friends_map, key, EmptyMap)
    IN  [outer EXCEPT ![key] = Map_insert(@, friend, TRUE)]

\* variant: writes user -> friend only
add_friend_one_way(self, predecessor, friend_id) ==
    LET user_id == predecessor IN
    IF user_id \notin Range(self.users) THEN Panicked(self, ERR_ADD_NOT_USER)
    ELSE IF friend_id \notin Range(self.users)
    THEN Panicked(self, ERR_ADD_FRIEND_NOT_USER)
    ELSE IF user_id = friend_id THEN Panicked(self, ERR_ADD_SELF)
    ELSE Returned([self EXCEPT
                     !.friends = insert_friend(self.friends, user_id, friend_id)],
                  NoValue)

\* variant: no check that the friend is another account
add_friend_self_allowed(self, predecessor, friend_id) ==
    LET user_id == predecessor IN
    IF user_id \notin Range(self.users) THEN Panicked(self, ERR_ADD_NOT_USER)
    ELSE IF friend_id \notin Range(self.users)
    THEN Panicked(self, ERR_ADD_FRIEND_NOT_USER)
    ELSE LET f1 == insert_friend(self.friends, user_id, friend_id)
             f2 == insert_friend(f1, friend_id, user_id)
         IN  Returned([self EXCEPT !.friends = f2], NoValue)

add_friend(self, predecessor, friend_id) ==
    LET user_id == predecessor IN
    IF user_id \notin Range(self.users) THEN Panicked(self, ERR_ADD_NOT_USER)
    ELSE IF friend_id \notin Range(self.users)
    THEN Panicked(self, ERR_ADD_FRIEND_NOT_USER)
    ELSE IF user_id = friend_id THEN Panicked(self, ERR_ADD_SELF)
    ELSE LET f1 == insert_friend(self.friends, user_id, friend_id)
             f2 == insert_friend(f1, friend_id, user_id)
         IN  Returned([self EXCEPT !.friends = f2], NoValue)

\* the writes of send_message, once its checks have passed
push_message(self, user_id, chat_id, message_content, block_timestamp_ms) ==
    LET msgs == Map_or_insert(self.messages, chat_id,
                              Vector_new(StorageKey_Message))
        vec == msgs[chat_id]
        message == Message(user_id, message_content, block_timestamp_ms)
    IN  [self EXCEPT
           !.messages = [msgs EXCEPT ![chat_id].len = vec.len + 1],
           !.storage = Vector_push_storage(self.storage, vec, message)]

\* variant: the friendship of caller and receiver is not checked
send_message_any_receiver(self, predecessor, receiver_id, message_content, block_timestamp_ms) ==
    LET user_id == predecessor IN
    IF user_id \notin Range(self.users) THEN Panicked(self, ERR_SEND_NOT_USER)
    ELSE IF receiver_id \notin Range(self.users)
    THEN Panicked(self, ERR_SEND_RECEIVER_NOT_USER)
    ELSE IF message_content = "" THEN Panicked(self, ERR_SEND_EMPTY)
    ELSE LET chat_id == get_chat_id(user_id, receiver_id)
         IN  Returned(push_message(self, user_id, chat_id, message_content,
                                   block_timestamp_ms), chat_id)

\* variant: the chat id is taken of (receiver, sender)
send_message_swapped_chat(self, predecessor, receiver_id, message_content, block_timestamp_ms) ==
    LET user_id == predecessor IN
    IF user_id \notin Range(self.users) THEN Panicked(self, ERR_SEND_NOT_USER)
    ELSE IF receiver_id \notin Range(self.users)
    THEN Panicked(self, ERR_SEND_RECEIVER_NOT_USER)
    ELSE IF user_id \notin DOMAIN self.friends
    THEN Panicked(self, ERR_SEND_NO_FRIEND)
    ELSE IF receiver_id \notin DOMAIN self.friends[user_id]
    THEN Panicked(self, ERR_SEND_NOT_FRIENDS)
    ELSE IF message_content = "" THEN Panicked(self, ERR_SEND_EMPTY)
    ELSE LET chat_id == get_chat_id(receiver_id, user_id)
         IN  Returned(push_message(self, user_id, chat_id, message_content,
                                   block_timestamp_ms), chat_id)

\* variant: the log entry is made before the content is checked
send_message_early_entry(self, predecessor, receiver_id, message_content, block_timestamp_ms) ==
    LET user_id == predecessor IN
    IF user_id \notin Range(self.users) THEN Panicked(self, ERR_SEND_NOT_USER)
    ELSE IF receiver_id \notin Range(self.users)
    THEN Panicked(self, ERR_SEND_RECEIVER_NOT_USER)
    ELSE IF user_id \notin DOMAIN self.friends
    THEN Panicked(self, ERR_SEND_NO_FRIEND)
    ELSE IF receiver_id \notin DOMAIN self.friends[user_id]
    THEN Panicked(self, ERR_SEND_NOT_FRIENDS)
    ELSE LET chat_id == get_chat_id(user_id, receiver_id)
             entered == [self EXCEPT !.messages =
                            Map_or_insert(@, chat_id, Vector_new(StorageKey_Message))]
         IN  IF message_content = "" THEN Panicked(entered, ERR_SEND_EMPTY)
             ELSE Returned(push_message(self, user_id, chat_id, message_content,
                                        block_timestamp_ms), chat_id)

\* variant: a caller without an entry in `friends` has an empty friend map
send_message_default_friends(self, predecessor, receiver_id, message_content, block_timestamp_ms) ==
    LET user_id == predecessor IN
    IF user_id \notin Range(self.users) THEN Panicked(self, ERR_SEND_NOT_USER)
    ELSE IF receiver_id \notin Range(self.users)
    THEN Panicked(self, ERR_SEND_RECEIVER_NOT_USER)
    ELSE IF \/ user_id \notin DOMAIN self.friends
            \/ receiver_id \notin DOMAIN self.friends[user_id]
    THEN Panicked(self, ERR_SEND_NOT_FRIENDS)
    ELSE IF message_content = "" THEN Panicked(self, ERR_SEND_EMPTY)
    ELSE LET chat_id == get_chat_id(user_id, receiver_id)
         IN  Returned(push_message(self, user_id, chat_id, message_content,
                                   block_timestamp_ms), chat_id)

\* variant: the content is not checked
send_message_empty_allowed(self, predecessor, receiver_id, message_content, block_timestamp_ms) ==
    LET user_id == predecessor IN
    IF user_id \notin Range(self.users) THEN Panicked(self, ERR_SEND_NOT_USER)
    ELSE IF receiver_id \notin Range(self.users)
    THEN Panicked(self, ERR_SEND_RECEIVER_NOT_USER)
    ELSE IF user_id \notin DOMAIN self.friends
    THEN Panicked(self, ERR_SEND_NO_FRIEND)
    ELSE IF receiver_id \notin DOMAIN self.friends[user_id]
    THEN Panicked(self, ERR_SEND_NOT_FRIENDS)
    ELSE LET chat_id == get_chat_id(user_id, receiver_id)
         IN  Returned(push_message(self, user_id, chat_id, message_content,
                                   block_timestamp_ms), chat_id)

\* variant: the content is checked before caller, receiver and friendship
send_message_content_first(self, predecessor, receiver_id, message_content, block_timestamp_ms) ==
    LET user_id == predecessor IN
    IF message_content = "" THEN Panicked(self, ERR_SEND_EMPTY)
    ELSE IF user_id \notin Range(self.users) THEN Panicked(self, ERR_SEND_NOT_USER)
    ELSE IF receiver_id \notin Range(self.users)
    THEN Panicked(self, ERR_SEND_RECEIVER_NOT_USER)
    ELSE IF user_id \notin DOMAIN self.friends
    THEN Panicked(self, ERR_SEND_NO_FRIEND)
    ELSE IF receiver_id \notin DOMAIN self.friends[user_id]
    THEN Panicked(self, ERR_SEND_NOT_FRIENDS)
    ELSE LET chat_id == get_chat_id(user_id, receiver_id)
         IN  Returned(push_message(self, user_id, chat_id, message_content,
                                   block_timestamp_ms), chat_id)

send_message(self, predecessor, receiver_id, message_content, block_timestamp_ms) ==
    LET user_id == predecessor IN
    IF user_id \notin Range(self.users) THEN Panicked(self, ERR_SEND_NOT_USER)
    ELSE IF receiver_id \notin Range(self.users)
    THEN Panicked(self, ERR_SEND_RECEIVER_NOT_USER)
    ELSE IF user_id \notin DOMAIN self.friends
    THEN Panicked(self, ERR_SEND_NO_FRIEND)
    ELSE IF receiver_id \notin DOMAIN self.friends[user_id]
    THEN Panicked(self, ERR_SEND_NOT_FRIENDS)
    ELSE IF message_content = "" THEN Panicked(self, ERR_SEND_EMPTY)
    ELSE LET chat_id == get_chat_id(user_id, receiver_id)
         IN  Returned(push_message(self, user_id, chat_id, message_content,
                                   block_timestamp_ms), chat_id)

\* variant: an absent log reads as an empty one
get_messages_or_empty(self, user_id, receiver_id, limit, offset) ==
    LET chat_id == get_chat_id(user_id, receiver_id) IN
    IF chat_id \notin DOMAIN self.messages THEN Returned(self, <<>>)
    ELSE Returned(self,
             take(skip(rev(Vector_iter(self.storage, self.messages[chat_id])),
                       unwrap_or(offset, 0)),
                  unwrap_or(limit, 10)))

get_messages(self, user_id, receiver_id, limit, offset) ==
    LET chat_id == get_chat_id(user_id, receiver_id) IN
    IF chat_id \notin DOMAIN self.messages THEN Panicked(self, ERR_NO_MESSAGES)
    ELSE Returned(self,
             take(skip(rev(Vector_iter(self.storage, self.messages[chat_id])),
                       unwrap_or(offset, 0)),
                  unwrap_or(limit, 10)))

\* variant: without a limit the whole registry is returned
get_users_unlimited(self, limit, offset) ==
    Returned(self, take(skip(rev(self.users), unwrap_or(offset, 0)),
                        unwrap_or(limit, Len(self.users))))

get_users(self, limit, offset) ==
    Returned(self, take(skip(rev(self.users), unwrap_or(offset, 0)),
                        unwrap_or(limit, 10)))

get_users_length(self) == Returned(self, Len(self.users))

-----------------------------------------------------------------------------
(* The state machine *)

ChatIds == {get_chat_id(a, b) : a, b \in Accounts}

\* the number of messages pushed so far: the lengths of the vectors, summed
RECURSIVE SumLen(_, _)
SumLen(map, keys) ==
    IF keys = {} THEN 0
    ELSE LET k == CHOOSE x \in keys : TRUE
         IN  map[k].len + SumLen(map, keys \ {k})

TotalSent == SumLen(messages, DOMAIN messages)

Init ==
    /\ users = new.users
    /\ messages = new.messages
    /\ friends = new.friends
    /\ storage = new.storage
    /\ last = [method |-> "new", err |-> NoError, ret |-> NoValue, effect |-> TRUE]
    /\ sent = [c \in ChatIds |-> <<>>]
    /\ created = {}

\* No method reads `last`, so what a call does from a contract state does not
\* depend on the call before it.  A call that left the contract state as it was
\* (a panic, a view, a repeated insertion) is therefore not followed further:
\* every call is still made in every contract state the contract can reach.
CallState == last.effect

\* the state and the outcome a call leaves
Commit(r, method) ==
    /\ CallState
    /\ users' = r.self.users
    /\ messages' = r.self.messages
    /\ friends' = r.self.friends
    /\ storage' = r.self.storage
    /\ last' = [method |-> method, err |-> r.err, ret |-> r.ret,
                effect |-> r.self # Self]

CreateAccount(p) ==
    /\ Commit(create_account(Self, p), "create_account")
    /\ created' = created \cup {p}
    /\ UNCHANGED sent

AddFriend(p, friend_id) ==
    /\ Commit(add_friend(Self, p, friend_id), "add_friend")
    /\ UNCHANGED <<sent, created>>

SendMessage(p, receiver_id, content, t) ==
    LET r == send_message(Self, p, receiver_id, content, t) IN
    /\ r.err = NoError => TotalSent < MaxSends
    /\ Commit(r, "send_message")
    /\ sent' = IF r.err = NoError
               THEN [sent EXCEPT ![get_chat_id(p, receiver_id)] =
                        Append(@, Message(p, content, t))]
               ELSE sent
    /\ UNCHANGED created

GetMessages(user_id, receiver_id, limit, offset) ==
    /\ Commit(get_messages(Self, user_id, receiver_id, limit, offset),
              "get_messages")
    /\ UNCHANGED <<sent, created>>

GetUsers(limit, offset) ==
    /\ Commit(get_users(Self, limit, offset), "get_users")
    /\ UNCHANGED <<sent, created>>

GetUsersLength ==
    /\ Commit(get_users_length(Self), "get_users_length")
    /\ UNCHANGED <<sent, created>>

GetChatId(a, b) ==
    /\ Commit(Returned(Self, get_chat_id(a, b)), "get_chat_id")
    /\ UNCHANGED <<sent, created>>

Next ==
    \/ \E p \in Accounts : CreateAccount(p)
    \/ \E p, f \in Accounts : AddFriend(p, f)
    \/ \E p, r \in Accounts, m \in Payloads : SendMessage(p, r, m[1], m[2])
    \/ \E u, r \in Accounts, l, o \in Options : GetMessages(u, r, l, o)
    \/ \E l, o \in Options : GetUsers(l, o)
    \/ GetUsersLength
    \/ \E a, b \in Accounts : GetChatId(a, b)

Spec == Init /\ [][Next]_vars

-----------------------------------------------------------------------------
(* Vocabulary of the properties *)

\* the error kinds of the specification, by the panic message that reports them
ErrorKind(err) ==
    CASE err = NoError -> "Ok"
      [] err \in {ERR_ADD_NOT_USER, ERR_SEND_NOT_USER} -> "Unauthorized"
      [] err \in {ERR_ADD_FRIEND_NOT_USER, ERR_SEND_RECEIVER_NOT_USER} -> "InvalidTarget"
      [] err = ERR_ADD_SELF -> "SelfReference"
      [] err = ERR_SEND_NO_FRIEND -> "NoFriendsAtAll"
      [] err = ERR_SEND_NOT_FRIENDS -> "NotFriend"
      [] err = ERR_SEND_EMPTY -> "EmptyMessage"
      [] err = ERR_NO_MESSAGES -> "NoSuchChannel"

Registered(self, a) == a \in Range(self.users)

\* the directed fact a -> b is stored
HasEdge(self, a, b) == a \in DOMAIN self.friends /\ b \in DOMAIN self.friends[a]

LogExists(self, chat_id) == chat_id \in DOMAIN self.messages

\* the content of the log at chat_id, in append order
Log(self, chat_id) == Vector_iter(self.storage, self.messages[chat_id])

LogOrEmpty(self, chat_id) ==
    IF LogExists(self, chat_id) THEN Log(self, chat_id) ELSE <<>>

IsPrefix(s, t) == Len(s) <= Len(t) /\ SubSeq(t, 1, Len(s)) = s

\* The properties below that speak of what a call does are stated of every call
\* in every state calls are made from (CallState); the other states differ from
\* those in `last` alone.

\* the Option<u32> values the properties range over
AllOptions == {None} \cup {Some(n) : n \in 0..(MaxSends + 1)}

\* C1: in every state between calls the fact a -> b is stored iff b -> a is,
\* and every stored flag is true.
C1_FriendshipSymmetry ==
    \A a \in DOMAIN friends : \A b \in DOMAIN friends[a] :
        /\ friends[a][b] = TRUE
        /\ HasEdge(Self, b, a)

C1_Witness ==
    /\ last.method = "add_friend" /\ last.err = NoError /\ last.effect
    /\ \E a, b, c \in Accounts :
          /\ Cardinality({a, b, c}) = 3
          /\ HasEdge(Self, a, b) /\ HasEdge(Self, a, c) /\ ~HasEdge(Self, b, c)

\* C2 as stated: send_message by an unregistered caller fails with
\* Unauthorized, to an unregistered receiver with InvalidTarget, to a registered
\* receiver that is not the caller's friend with NotFriend; and in none of
\* these cases is a message appended to any log.
C2_Original ==
    CallState =>
    \A p, r \in Accounts, m \in Payloads :
        LET res == send_message(Self, p, r, m[1], m[2])
            kind == ErrorKind(res.err)
        IN  /\ ~Registered(Self, p) => kind = "Unauthorized"
            /\ Registered(Self, p) /\ ~Registered(Self, r) => kind = "InvalidTarget"
            /\ Registered(Self, p) /\ Registered(Self, r) /\ ~HasEdge(Self, p, r)
                  => kind = "NotFriend"
            /\ ~(Registered(Self, p) /\ Registered(Self, r) /\ HasEdge(Self, p, r))
                  => res.self.messages = messages /\ res.self.storage = storage

\* C2, amended: as C2, except that a registered caller sending to a registered
\* receiver that is not its friend fails with NoFriendsAtAll when the caller
\* has no friendship entry at all, and with NotFriend otherwise.
C2_AuthorizationGating ==
    CallState =>
    \A p, r \in Accounts, m \in Payloads :
        LET res == send_message(Self, p, r, m[1], m[2])
            kind == ErrorKind(res.err)
        IN  /\ ~Registered(Self, p) => kind = "Unauthorized"
            /\ Registered(Self, p) /\ ~Registered(Self, r) => kind = "InvalidTarget"
            /\ Registered(Self, p) /\ Registered(Self, r) /\ ~HasEdge(Self, p, r)
                  => kind = IF p \in DOMAIN friends THEN "NotFriend"
                            ELSE "NoFriendsAtAll"
            /\ ~(Registered(Self, p) /\ Registered(Self, r) /\ HasEdge(Self, p, r))
                  => res.self.messages = messages /\ res.self.storage = storage

C2_Witness ==
    /\ last.method = "send_message"
    /\ ErrorKind(last.err) = "NoFriendsAtAll"
    /\ Len(users) >= 2

\* C3: when caller and receiver are registered, the receiver is in the
\* caller's friend set and the content is not empty, send_message succeeds,
\* appends exactly the message {caller, content, current time} at the end of
\* the log at get_chat_id(caller, receiver), creating it if absent, and
\* returns that chat id.
C3_SendEffect ==
    CallState =>
    \A p, r \in Accounts, m \in Payloads :
        LET res == send_message(Self, p, r, m[1], m[2])
            chat_id == get_chat_id(p, r)
        IN  Registered(Self, p) /\ Registered(Self, r) /\ HasEdge(Self, p, r)
                /\ m[1] # ""
            =>  /\ res.err = NoError
                /\ res.ret = chat_id
                /\ LogExists(res.self, res.ret)
                /\ Log(res.self, chat_id)
                      = Append(LogOrEmpty(Self, chat_id), Message(p, m[1], m[2]))

C3_Witness ==
    /\ last.method = "send_message" /\ last.err = NoError
    /\ LogExists(Self, last.ret)
    /\ Len(Log(Self, last.ret)) = 2

\* C4: once a log exists at a chat id it exists in every later state, and its
\* content in the earlier state is a prefix of its content in the later one.
C4_AppendOnly ==
    [][\A c \in DOMAIN messages :
          /\ c \in DOMAIN messages'
          /\ IsPrefix(Vector_iter(storage, messages[c]),
                      Vector_iter(storage', messages'[c]))]_vars

\* C5: when the log at get_chat_id(user, receiver) exists, get_messages returns
\* the messages sent there, most recent first, with `offset` of them skipped
\* and at most `limit` taken (limit 10 and offset 0 when not given).
C5_ReverseAppendOrder ==
    CallState =>
    \A u, r \in Accounts, l, o \in AllOptions :
        LET chat_id == get_chat_id(u, r)
            res == get_messages(Self, u, r, l, o)
            off == IF o = None THEN 0 ELSE o[1]
            lim == IF l = None THEN 10 ELSE l[1]
            newest_first == [i \in 1..Len(sent[chat_id]) |->
                               sent[chat_id][Len(sent[chat_id]) + 1 - i]]
        IN  LogExists(Self, chat_id) =>
               /\ res.err = NoError
               /\ Len(res.ret) = IF Len(newest_first) - off < 0 THEN 0
                                 ELSE IF Len(newest_first) - off < lim
                                      THEN Len(newest_first) - off
                                      ELSE lim
               /\ \A i \in 1..Len(res.ret) : res.ret[i] = newest_first[off + i]

\* C6: get_messages fails with NoSuchChannel iff no log exists at
\* get_chat_id(user, receiver); for an absent log it returns nothing, and for a
\* log that exists an offset at or past its length gives the empty sequence.
C6_NoSuchChannel ==
    CallState =>
    \A u, r \in Accounts, l \in Options, o \in AllOptions :
        LET chat_id == get_chat_id(u, r)
            res == get_messages(Self, u, r, l, o)
        IN  /\ ErrorKind(res.err) \in {"Ok", "NoSuchChannel"}
            /\ ErrorKind(res.err) = "NoSuchChannel" <=> ~LogExists(Self, chat_id)
            /\ ~LogExists(Self, chat_id) => res.ret = NoValue
            /\ LogExists(Self, chat_id) /\ o # None
                 /\ o[1] >= messages[chat_id].len
               => res.err = NoError /\ res.ret = <<>>

C6_Witness ==
    /\ last.method = "get_messages" /\ last.err = NoError
    /\ last.ret = <<>>
    /\ \E c \in DOMAIN messages : messages[c].len > 0

\* C7: create_account returns true the first time an account calls it and
\* false afterwards; the first call adds one to the registry's size and later
\* calls leave it as it is; get_users_length is the number of distinct accounts
\* that have called create_account.
C7_Registration ==
    /\ get_users_length(Self).ret = Cardinality(created)
    /\ CallState => \A p \in Accounts :
          LET res == create_account(Self, p)
          IN  /\ res.err = NoError
              /\ res.ret = (p \notin created)
              /\ get_users_length(res.self).ret
                    = get_users_length(Self).ret + (IF p \in created THEN 0 ELSE 1)

C7_Witness ==
    /\ last.method = "create_account"
    /\ last.ret = FALSE
    /\ Cardinality(created) = 2

\* C8: add_friend fails with Unauthorized when the caller is not registered,
\* with InvalidTarget when the caller is registered and the target is not,
\* with SelfReference when the caller is registered and is the target, and
\* succeeds otherwise.
C8_AddFriendGuards ==
    CallState =>
    \A p, f \in Accounts :
        ErrorKind(add_friend(Self, p, f).err) =
            IF ~Registered(Self, p) THEN "Unauthorized"
            ELSE IF ~Registered(Self, f) THEN "InvalidTarget"
            ELSE IF p = f THEN "SelfReference"
            ELSE "Ok"

C8_Witness ==
    /\ last.method = "add_friend"
    /\ ErrorKind(last.err) = "SelfReference"

\* C9: after add_friend by A with target B succeeds, A -> B and B -> A are
\* both stored with value true, and a further add_friend by A with target B or
\* by B with target A succeeds and leaves the whole state as it was.
C9_AddFriendIdempotent ==
    CallState =>
    \A a, b \in Accounts :
        LET res == add_friend(Self, a, b)
        IN  res.err = NoError =>
              /\ HasEdge(res.self, a, b) /\ res.self.friends[a][b] = TRUE
              /\ HasEdge(res.self, b, a) /\ res.self.friends[b][a] = TRUE
              /\ add_friend(res.self, a, b) = Returned(res.self, NoValue)
              /\ add_friend(res.self, b, a) = Returned(res.self, NoValue)

C9_Witness ==
    /\ last.method = "add_friend" /\ last.err = NoError
    /\ ~last.effect

\* C10: when add_friend, send_message or get_messages fails, the registry, the
\* friendship graph and every log are as they were before the call.
C10_FailFast ==
    CallState =>
    /\ \A p, f \in Accounts :
          LET res == add_friend(Self, p, f)
          IN  res.err # NoError => res.self = Self
    /\ \A p, r \in Accounts, m \in Payloads :
          LET res == send_message(Self, p, r, m[1], m[2])
          IN  res.err # NoError => res.self = Self
    /\ \A u, r \in Accounts, l, o \in Options :
          LET res == get_messages(Self, u, r, l, o)
          IN  res.err # NoError => res.self = Self

C10_Witness ==
    /\ last.method = "send_message"
    /\ ErrorKind(last.err) = "EmptyMessage"
    /\ ~last.effect
    /\ messages = EmptyMap

\* C11: send_message with empty content by a registered caller to a registered
\* friend fails with EmptyMessage, and the log at get_chat_id(caller, receiver)
\* is as it was: unchanged if it existed, still absent if it did not.
C11_EmptyRejected ==
    CallState =>
    \A p, r \in Accounts, m \in Payloads :
        LET res == send_message(Self, p, r, "", m[2])
            chat_id == get_chat_id(p, r)
        IN  Registered(Self, p) /\ Registered(Self, r) /\ HasEdge(Self, p, r)
            =>  /\ ErrorKind(res.err) = "EmptyMessage"
                /\ LogExists(res.self, chat_id) = LogExists(Self, chat_id)
                /\ LogOrEmpty(res.self, chat_id) = LogOrEmpty(Self, chat_id)

C11_Witness ==
    /\ last.method = "send_message"
    /\ ErrorKind(last.err) = "EmptyMessage"
    /\ \E a, b \in Accounts :
          /\ HasEdge(Self, a, b)
          /\ LogExists(Self, get_chat_id(a, b))
          /\ ~LogExists(Self, get_chat_id(b, a))

\* C12 as stated: for any two distinct accounts A and B, get_chat_id(A, B)
\* and get_chat_id(B, A) are different values: the value a get_chat_id(A, B)
\* call returned is not the value of get_chat_id(B, A).
C12_Original ==
    \A a, b \in Accounts :
        a # b /\ last.method = "get_chat_id" /\ last.ret = get_chat_id(a, b)
        => last.ret # get_chat_id(b, a)

\* C12, amended: get_chat_id(A, B) is the digest of A's string immediately
\* followed by B's, whatever the contract state, and every get_chat_id call
\* returns such a digest; for distinct A and B, get_chat_id(A, B) and
\* get_chat_id(B, A) are the same value when the two concatenations are the
\* same string, and different values otherwise.
C12_ChatId ==
    /\ \A a, b \in Accounts :
          /\ get_chat_id(a, b) = keccak256(a \o b)
          /\ a # b =>
                ((get_chat_id(a, b) = get_chat_id(b, a)) <=> (a \o b = b \o a))
    /\ last.method = "get_chat_id" =>
          \E a, b \in Accounts : last.ret = keccak256(a \o b)

C12_Witness ==
    /\ last.method = "get_chat_id"
    /\ last.ret = get_chat_id("aa", "aaa")
    /\ last.ret = get_chat_id("aaa", "aa")
    /\ last.ret # get_chat_id("aa", "bb")
    /\ messages # EmptyMap

----------------------------------------------------------------------------
\* The registry alone, grown past the default page size of get_users:
\* MaxRoster further accounts register one after the other, in the order of
\* their numbers, interleaved in any way with the accounts of Accounts.

MaxRoster == 12

RosterId(i) == "user" \o ToString(i)

\* the callers of create_account: any of Accounts, or the next roster account
Callers ==
    LET k == Cardinality(Range(users) \ Accounts)
    IN  Accounts \cup (IF k < MaxRoster THEN {RosterId(k + 1)} ELSE {})

PageOptions ==
    {None, Some(0), Some(1), Some(10), Some(11), Some(MaxRoster + 4)}

NextUsers ==
    \/ \E p \in Callers : CreateAccount(p)
    \/ \E l, o \in PageOptions : GetUsers(l, o)
    \/ GetUsersLength

SpecUsers == Init /\ [][NextUsers]_vars

\* C13: get_users(limit, offset) returns the registered accounts newest
\* first: it skips the `offset` most recently registered ones and returns at
\* most `limit` of the rest, with limit 10 and offset 0 when absent; an
\* offset at or beyond the registry size gives the empty sequence, and the
\* call never fails.  A newly registered account is the first one listed.
C13_GetUsersPagination ==
    CallState =>
    /\ \A l, o \in PageOptions :
          LET res == get_users(Self, l, o)
              n == Len(users)
              off == IF o = None THEN 0 ELSE o[1]
              lim == IF l = None THEN 10 ELSE l[1]
              avail == IF off >= n THEN 0 ELSE n - off
              cnt == IF lim < avail THEN lim ELSE avail
          IN  /\ res.err = NoError
              /\ res.self = Self
              /\ Len(res.ret) = cnt
              /\ \A i \in 1..cnt : res.ret[i] = users[n - off - i + 1]
    /\ \A p \in Callers \ Range(users) :
          LET after == create_account(Self, p).self
          IN  /\ get_users(after, Some(1), None).ret = <<p>>
              /\ get_users(after, Some(Len(users)), Some(1)).ret
                    = get_users(Self, Some(Len(users)), None).ret

C13_Witness ==
    /\ last.method = "get_users"
    /\ Len(users) > 10
    /\ Len(last.ret) = 10
    /\ last.ret[1] = users[Len(users)]
    /\ last.ret[10] = users[Len(users) - 9]

----------------------------------------------------------------------------
\* C14: no call unregisters an account, removes a directed friendship fact
\* or sets its flag to false: an account registered before a step is
\* registered after it, and an edge stored before a step is stored, with the
\* flag true, after it.
C14_MonotonicMembership ==
    [][ /\ \A a \in Accounts : Registered(Self, a) => a \in Range(users')
        /\ \A a, b \in Accounts :
              HasEdge(Self, a, b) =>
                  /\ a \in DOMAIN friends'
                  /\ b \in DOMAIN friends'[a]
                  /\ friends'[a][b] = TRUE
        /\ Len(users) <= Len(users')
      ]_vars

\* every account is registered with two friends, and a further add_friend
\* has just written into the full graph
C14_Witness ==
    /\ last.method = "add_friend"
    /\ last.err = NoError
    /\ \A a \in Accounts : Registered(Self, a)
    /\ \A a, b \in Accounts : a # b => HasEdge(Self, a, b) /\ friends[a][b] = TRUE

\* a is the source or the target of a stored friendship fact: by C9 and C14,
\* some add_friend with a as caller or as target has succeeded
Involved(self, a) ==
    \E b \in Accounts : HasEdge(self, a, b) \/ HasEdge(self, b, a)

\* C15: a send from a registered caller to a registered receiver fails with
\* NoFriendsAtAll exactly when the caller has no friendship entry at all (it
\* is neither source nor target of any edge), and with NotFriend exactly when
\* the caller has some friendship entry but none for this receiver.
C15_NoFriendsVsNotFriend ==
    CallState =>
    \A p, r \in Accounts, m \in Payloads :
        LET kind == ErrorKind(send_message(Self, p, r, m[1], m[2]).err)
        IN  Registered(Self, p) /\ Registered(Self, r)
            =>  /\ (kind = "NoFriendsAtAll") <=> ~Involved(Self, p)
                /\ (kind = "NotFriend") <=>
                       (Involved(Self, p) /\ ~HasEdge(Self, p, r))

\* a send was refused with NotFriend while another registered account has no
\* friendship entry at all
C15_Witness ==
    /\ last.method = "send_message"
    /\ ErrorKind(last.err) = "NotFriend"
    /\ \E c \in Accounts : Registered(Self, c) /\ ~Involved(Self, c)

\* C16: send_message reports the first failing condition in the order
\* Unauthorized, InvalidTarget, NoFriendsAtAll, NotFriend, EmptyMessage,
\* whatever else also fails; a registered caller sending to itself always
\* fails with NoFriendsAtAll or NotFriend.
C16_ErrorPrecedence ==
    CallState =>
    \A p, r \in Accounts, m \in Payloads :
        LET kind == ErrorKind(send_message(Self, p, r, m[1], m[2]).err)
        IN  /\ kind =
                  IF ~Registered(Self, p) THEN "Unauthorized"
                  ELSE IF ~Registered(Self, r) THEN "InvalidTarget"
                  ELSE IF p \notin DOMAIN friends THEN "NoFriendsAtAll"
                  ELSE IF r \notin DOMAIN friends[p] THEN "NotFriend"
                  ELSE IF m[1] = "" THEN "EmptyMessage"
                  ELSE "Ok"
            /\ (Registered(Self, p) /\ p = r)
                  => kind \in {"NoFriendsAtAll", "NotFriend"}

\* a send was refused for want of any friend while two other accounts are
\* friends and have a log
C16_Witness ==
    /\ last.method = "send_message"
    /\ ErrorKind(last.err) = "NoFriendsAtAll"
    /\ messages # EmptyMap
    /\ \E c \in Accounts : Registered(Self, c) /\ c \notin DOMAIN friends

\* C19: every stored friendship fact a -> b has a # b, both a and b
\* registered, and the flag true: no account is its own friend and no
\* unregistered account is in `friends`, as a key or as a friend.
C19_WellFormedGraph ==
    \A a \in DOMAIN friends :
        /\ Registered(Self, a)
        /\ \A b \in DOMAIN friends[a] :
              /\ a # b
              /\ Registered(Self, b)
              /\ friends[a][b] = TRUE

\* every account has friends, and an add_friend of an account to itself has
\* just been refused
C19_Witness ==
    /\ last.method = "add_friend"
    /\ ErrorKind(last.err) = "SelfReference"
    /\ Cardinality(DOMAIN friends) = 3

\* C17: a successful send from A to B changes only the log of the ordered
\* pair (A, B): for every ordered pair (C, D) other than (A, B), (B, A)
\* included, get_messages(C, D, ..) has the same outcome before and after
\* the send, and the registry and the friendship graph are as before.
C17_ChannelIsolation ==
    CallState =>
    \A p, r \in Accounts, m \in Payloads :
        LET res == send_message(Self, p, r, m[1], m[2])
        IN  res.err = NoError
            =>  /\ res.self.users = users
                /\ res.self.friends = friends
                /\ \A c, d \in Accounts, l, o \in Options :
                      <<c, d>> # <<p, r>> =>
                          LET before == get_messages(Self, c, d, l, o)
                              after == get_messages(res.self, c, d, l, o)
                          IN  after.err = before.err /\ after.ret = before.ret

\* C18: every existing log is non-empty, and every message returned by
\* get_messages(a, b, ..) has author a and non-empty content, with a and b
\* registered and b among a's friends.
C18_MessageProvenance ==
    /\ \A chat_id \in DOMAIN messages : Log(Self, chat_id) # <<>>
    /\ CallState =>
       \A a, b \in Accounts, l, o \in Options :
           LET res == get_messages(Self, a, b, l, o)
           IN  res.err = NoError =>
                   \A i \in 1..Len(res.ret) :
                       /\ res.ret[i].author = a
                       /\ res.ret[i].content # ""
                       /\ Registered(Self, a) /\ Registered(Self, b)
                       /\ HasEdge(Self, a, b)

====
